---- MODULE Spec2Model ----
(***************************************************************************)
(* EcoQuest backend (backend/server.py): the impact estimator, the content *)
(* generator with its provider fallback, and the six request handlers over *)
(* the document store.                                                     *)
(*                                                                         *)
(* Numbers of kilograms are kept in tenths (6.5 kg is 65).  A text is a    *)
(* sequence of pieces; a piece is a TLA+ string standing for the           *)
(* characters it spells (" " is whitespace).                               *)
(***************************************************************************)
EXTENDS Integers, Sequences, FiniteSets, TLC

VARIABLES
    users,          \* db.users: the set of stored user documents
    user_progress,  \* db.user_progress: the sequence of stored progress documents
    next_id,        \* the next identifier uuid4() hands out
    groq_key,       \* os.environ.get('GROQ_API_KEY')
    gemini_key,     \* os.environ.get('GEMINI_API_KEY')
    req,            \* the in-flight requests, one per slot
    started,        \* number of requests accepted so far
    est_in,         \* arguments of the estimator call under examination
    est_out         \* its result, None before the call

vars == <<users, user_progress, next_id, groq_key, gemini_key, req, started,
          est_in, est_out>>

None == "<None>"

-----------------------------------------------------------------------------
(* Impact estimator                                                        *)

\* dict.get(key, default)
Get(d, k, default) == IF k \in DOMAIN d THEN d[k] ELSE default

transport_values ==
    [k \in {"car", "bike", "walk", "public"} |->
        CASE k = "car" -> 65 [] k = "bike" -> 0 [] k = "walk" -> 0 [] k = "public" -> 21]

diet_values ==
    [k \in {"meat", "vegetarian", "vegan", "pescatarian"} |->
        CASE k = "meat" -> 72 [] k = "vegetarian" -> 38 [] k = "vegan" -> 29
          [] k = "pescatarian" -> 41]

energy_values ==
    [k \in {"low", "medium", "high"} |->
        CASE k = "low" -> 21 [] k = "medium" -> 48 [] k = "high" -> 82]

waste_values ==
    [k \in {"minimal", "average", "high"} |->
        CASE k = "minimal" -> 8 [] k = "average" -> 23 [] k = "high" -> 41]

TransportDefault == 65
DietDefault == 72
EnergyDefault == 48
WasteDefault == 23

DaysPerWeek == 7
DaysPerYear == 365

daily_co2_mut_zero(transport, diet, energy, waste) ==
    Get(transport_values, transport, 0) + Get(diet_values, diet, DietDefault)
      + Get(energy_values, energy, EnergyDefault) + Get(waste_values, waste, WasteDefault)

daily_co2_mut_worst(transport, diet, energy, waste) ==
    Get(transport_values, transport, TransportDefault) + Get(diet_values, diet, DietDefault)
      + Get(energy_values, energy, 82) + Get(waste_values, waste, 41)

daily_co2_mut_penalty(transport, diet, energy, waste) ==
    Get(transport_values, transport, TransportDefault) + Get(diet_values, diet, DietDefault)
      + Get(energy_values, energy, 100) + Get(waste_values, waste, WasteDefault)

daily_co2_of(transport, diet, energy, waste) ==
    Get(transport_values, transport, TransportDefault)
      + Get(diet_values, diet, DietDefault)
      + Get(energy_values, energy, EnergyDefault)
      + Get(waste_values, waste, WasteDefault)

impact_of_mut_leap(daily) ==
    [daily_co2 |-> daily, weekly_co2 |-> daily * DaysPerWeek, yearly_co2 |-> daily * 366]

impact_of(daily) ==
    [daily_co2 |-> daily, weekly_co2 |-> daily * DaysPerWeek,
     yearly_co2 |-> daily * DaysPerYear]

calculate_co2_impact(transport, diet, energy, waste) ==
    impact_of(daily_co2_of(transport, diet, energy, waste))

SuggestTransport == "Try biking or walking for short trips - save 6.5kg CO2/day"
SuggestDiet == "Reduce meat consumption 2-3 days/week - save up to 3kg CO2/day"
SuggestEnergy == "Switch to LED bulbs and unplug devices - save 2-4kg CO2/day"
SuggestWaste == "Start composting and reduce packaging - save 1-2kg CO2/day"

generate_suggestions_mut_cost(transport, diet, energy, waste) ==
    (IF Get(transport_values, transport, TransportDefault) = 65
        THEN <<SuggestTransport>> ELSE <<>>)
    \o (IF diet = "meat" THEN <<SuggestDiet>> ELSE <<>>)
    \o (IF energy = "high" THEN <<SuggestEnergy>> ELSE <<>>)
    \o (IF waste = "high" THEN <<SuggestWaste>> ELSE <<>>)

generate_suggestions(transport, diet, energy, waste) ==
    (IF transport = "car" THEN <<SuggestTransport>> ELSE <<>>)
    \o (IF diet = "meat" THEN <<SuggestDiet>> ELSE <<>>)
    \o (IF energy = "high" THEN <<SuggestEnergy>> ELSE <<>>)
    \o (IF waste = "high" THEN <<SuggestWaste>> ELSE <<>>)

\* ImpactSimulation(...) as built at the end of calculate_impact
ImpactSimulation(impact_data, suggestions, positive_impact) ==
    [daily_co2 |-> impact_data.daily_co2,
     weekly_co2 |-> impact_data.weekly_co2,
     yearly_co2 |-> impact_data.yearly_co2,
     suggestions |-> suggestions,
     positive_impact |-> positive_impact]

-----------------------------------------------------------------------------
(* Texts, str.strip() and json.loads()                                     *)

WS == " "

RECURSIVE LStrip(_)
LStrip(t) == IF t = <<>> THEN <<>>
             ELSE IF Head(t) = WS THEN LStrip(Tail(t)) ELSE t

RECURSIVE RStrip(_)
RStrip(t) == IF t = <<>> THEN <<>>
             ELSE IF t[Len(t)] = WS THEN RStrip(SubSeq(t, 1, Len(t) - 1)) ELSE t

StripIdentity(t) == t

\* str.strip(): leading and trailing whitespace removed
Strip(t) == LStrip(RStrip(t))

\* Python values as json.loads builds them
PyStr(s) == [t |-> "str", v |-> s]
PyInt(n) == [t |-> "int", v |-> n]
PyBool(b) == [t |-> "bool", v |-> b]
PyNone == [t |-> "NoneType"]
PyList(l) == [t |-> "list", v |-> l]
PyDict(d) == [t |-> "dict", v |-> d]

DocString == "\"hi\""
DocTrue == "true"
DocNull == "null"
DocEmptyArray == "[]"
DocNumberArray == "[7]"
DocActions == "[{\"title\":\"Plant trees\",\"description\":\"d\",\"impact\":\"i\",\"difficulty\":\"easy\"}]"
DocEmptyObject == "{}"
DocWelcome == "{\"welcome_message\":\"hi\"}"
DocWelcomeNull == "{\"welcome_message\":null}"
Digit == "7"
Word == "hello"

\* the JSON documents the providers are taken to produce, and their values
JsonDocs ==
    (DocString :> PyStr(<<"hi">>))
    @@ (DocTrue :> PyBool(TRUE))
    @@ (DocNull :> PyNone)
    @@ (DocEmptyArray :> PyList(<<>>))
    @@ (DocNumberArray :> PyList(<<PyInt(7)>>))
    @@ (DocActions :> PyList(<<PyDict([title |-> PyStr(<<"Plant trees">>),
                                       description |-> PyStr(<<"d">>),
                                       impact |-> PyStr(<<"i">>),
                                       difficulty |-> PyStr(<<"easy">>)])>>))
    @@ (DocEmptyObject :> PyDict(<<>>))
    @@ (DocWelcome :> PyDict([welcome_message |-> PyStr(<<"hi">>)]))
    @@ (DocWelcomeNull :> PyDict([welcome_message |-> PyNone]))

RECURSIVE DigitsValue(_)
DigitsValue(t) == IF t = <<>> THEN 0 ELSE 10 * DigitsValue(SubSeq(t, 1, Len(t) - 1)) + 7

JsonError == [ok |-> FALSE]

\* json.loads(text): surrounding whitespace is skipped, then exactly one
\* document must remain; anything else raises JSONDecodeError
json_loads(text) ==
    LET body == Strip(text) IN
    IF body = <<>> THEN JsonError
    ELSE IF \A i \in 1..Len(body) : body[i] = Digit
         THEN [ok |-> TRUE, value |-> PyInt(DigitsValue(body))]
    ELSE IF Len(body) = 1 /\ body[1] \in DOMAIN JsonDocs
         THEN [ok |-> TRUE, value |-> JsonDocs[body[1]]]
    ELSE JsonError

\* the fixed strings of generate_ai_content
Degraded == <<"AI service is currently unavailable. Please ensure Groq API key is properly configured.">>
Apology == <<"Sorry, I couldn't generate a response.">>

MaxPad == 1

Spaces(n) == [i \in 1..n |-> WS]

\* what a provider may answer, before padding with whitespace
Bodies ==
    {<<>>, <<Word>>, <<Word, WS, Word>>, <<Digit>>, <<Digit, Digit>>,
     <<DocEmptyObject, DocEmptyObject>>}
    \cup {<<d>> : d \in DOMAIN JsonDocs}

ProviderTexts ==
    {Spaces(l) \o b \o Spaces(r) : l \in 0..MaxPad, r \in 0..MaxPad, b \in Bodies}


-----------------------------------------------------------------------------
(* Content generator: generate_ai_content                                  *)

GroqPlaceholder == "your_groq_api_key_here"
GeminiPlaceholder == "your_gemini_api_key_here"

\* GEMINI_API_KEY is required at import time, so it is never absent
GroqKeys == {None, GroqPlaceholder, "gsk_live"}
GeminiKeys == {GeminiPlaceholder, "AIza_live"}

\* not key or key == placeholder
KeyMissing(key, placeholder) == key = None \/ key = "" \/ key = placeholder

DefaultSystemMessage == <<"You are an expert climate educator.">>

PathPhrase == "personalized climate education path"

\* str.lower() on the pieces that carry upper-case letters
LowerTable ==
    ("Create a personalized climate education path for a "
        :> "create a personalized climate education path for a ")
    @@ ("My Personalized Climate Education Path" :> "my personalized climate education path")
    @@ ("Paris" :> "paris")
    @@ ("Forests" :> "forests")

Lower(piece) == IF piece \in DOMAIN LowerTable THEN LowerTable[piece] ELSE piece

\* the lower-case pieces that contain PathPhrase
PhrasePieces ==
    {"create a personalized climate education path for a ",
     "my personalized climate education path",
     PathPhrase}

\* "personalized climate education path" in prompt.lower()
IsStructured(prompt) == \E i \in 1..Len(prompt) : Lower(prompt[i]) \in PhrasePieces

GroqCall(prompt, system_message) ==
    IF IsStructured(prompt)
    THEN [provider |-> "groq", model |-> "llama-3.1-70b-versatile",
          messages |-> <<[role |-> "system", content |-> system_message],
                         [role |-> "user",
                          content |-> <<"Generate a JSON response for climate onboarding: ">>
                                      \o prompt]>>,
          temperature |-> 7, max_tokens |-> 800, json_object |-> TRUE]
    ELSE [provider |-> "groq", model |-> "llama-3.1-8b-instant",
          messages |-> <<[role |-> "system", content |-> system_message],
                         [role |-> "user", content |-> prompt]>>,
          temperature |-> 8, max_tokens |-> 500, json_object |-> FALSE]

full_prompt_without_system(prompt, system_message) == <<"User Query: ">> \o prompt

full_prompt(prompt, system_message) == system_message \o <<"\n\nUser Query: ">> \o prompt

GeminiCall(prompt, system_message) ==
    [provider |-> "gemini", model |-> "gemini-1.5-flash",
     contents |-> full_prompt(prompt, system_message)]


-----------------------------------------------------------------------------
(* Request handlers: what each does between two awaits                     *)

NoDoc == [none |-> TRUE]
NoResp == [status |-> 0]

IdleReq ==
    [op |-> "idle", pc |-> "idle", args |-> NoDoc, user |-> NoDoc, progress |-> NoDoc,
     prompt |-> <<>>, system_message |-> <<>>, calls |-> <<>>, replies |-> <<>>,
     path |-> <<>>, ai |-> <<>>, lookup |-> "none", stored |-> "none", resp |-> NoResp]

HTTPException(status_code, detail) == [status |-> status_code, detail |-> detail]
Ok(body) == [status |-> 200, body |-> body]

\* ", ".join(items)
RECURSIVE Join(_)
Join(items) == IF items = <<>> THEN <<>>
               ELSE IF Len(items) = 1 THEN <<items[1]>>
               ELSE <<items[1], ", ">> \o Join(Tail(items))

\* items[:n]
Take(items, n) == SubSeq(items, 1, IF Len(items) < n THEN Len(items) ELSE n)

\* str.title() on the interests in use
TitleTable ==
    ("oceans" :> "Oceans")
    @@ ("renewable energy" :> "Renewable Energy")
    @@ ("waste" :> "Waste")
    @@ ("Forests" :> "Forests")
    @@ ("climate" :> "Climate")

TitleIdentity(word) == word

Title(word) == TitleTable[word]

UserWithPointsFromAge(id, request) ==
    [id |-> id, age |-> request.age, interests |-> request.interests,
     knowledge_level |-> request.knowledge_level,
     learning_style |-> request.learning_style, location |-> request.location,
     points |-> request.age, level |-> 1, completed_quests |-> <<>>]

\* User(...) as complete_onboarding constructs it
User(id, request) ==
    [id |-> id, age |-> request.age, interests |-> request.interests,
     knowledge_level |-> request.knowledge_level,
     learning_style |-> request.learning_style, location |-> request.location,
     points |-> 0, level |-> 1, completed_quests |-> <<>>]

OnboardingPrompt(request) ==
    <<"Create a personalized climate education path for a ", ToString(request.age),
      "-year-old with ", request.knowledge_level,
      " knowledge level. Their interests include: ">>
    \o Join(request.interests)
    \o <<". They prefer ", request.learning_style,
         " learning style. Generate a JSON response with: - welcome_message - learning_modules - first_quest - daily_tip. Keep it motivational and age-appropriate.">>

OnboardingSystemMessage ==
    <<"You are an expert climate educator creating personalized learning paths.">>

Module(title, icon) ==
    PyDict([title |-> PyStr(title), icon |-> PyStr(<<icon>>), progress |-> PyInt(0)])

\* the fallback personalized path of complete_onboarding (icons by name)
FallbackPath(interests) ==
    LET interests_text == IF interests # <<>> THEN Join(Take(interests, 2))
                          ELSE <<"climate change and sustainability">>
        first_interest == IF interests # <<>> THEN interests[1] ELSE "climate"
    IN PyDict(
        [welcome_message |->
            PyStr(<<"Welcome to EcoQuest! Ready to become a climate hero? Based on your interests in ">>
                  \o interests_text
                  \o <<", we've created an exciting journey just for you!">>),
         learning_modules |->
            PyList(<<Module(<<"Climate Basics">>, "globe"),
                     Module(<<Title(first_interest), " Deep Dive">>, "magnifier"),
                     Module(<<"Carbon Footprint">>, "footprints"),
                     Module(<<"Green Solutions">>, "seedling"),
                     Module(<<"Take Action">>, "lightning")>>),
         first_quest |->
            PyStr(<<"Calculate your carbon footprint and discover 3 easy ways to reduce it today!">>),
         daily_tip |->
            PyStr(<<"Did you know? Unplugging devices when not in use can save up to 10% on your electricity bill!">>)])

AfterOnboardingFailsOnNonObject(r) ==
    LET parsed == json_loads(r.ai)
        personalized_path ==
            IF parsed.ok /\ parsed.value.t = "dict" THEN parsed.value
            ELSE FallbackPath(r.args.interests)
        welcome_message ==
            IF "welcome_message" \in DOMAIN personalized_path.v
            THEN personalized_path.v.welcome_message
            ELSE PyStr(<<"Welcome to EcoQuest!">>)
    IN IF welcome_message.t = "str" /\ ~(parsed.ok /\ parsed.value.t # "dict")
       THEN [r EXCEPT !.pc = "done",
                      !.resp = Ok([user_id |-> r.user.id,
                                   personalized_path |-> personalized_path,
                                   welcome_message |-> welcome_message.v])]
       ELSE [r EXCEPT !.pc = "done", !.resp = HTTPException(500, "Onboarding failed")]

\* complete_onboarding from the return of generate_ai_content to its response
AfterOnboarding(r) ==
    LET parsed == json_loads(r.ai)
        \* json.loads raised, or .keys() raised on a value that is not a dict
        personalized_path ==
            IF parsed.ok /\ parsed.value.t = "dict" THEN parsed.value
            ELSE FallbackPath(r.args.interests)
        welcome_message ==
            IF "welcome_message" \in DOMAIN personalized_path.v
            THEN personalized_path.v.welcome_message
            ELSE PyStr(<<"Welcome to EcoQuest!">>)
    IN IF welcome_message.t = "str"
       THEN [r EXCEPT !.pc = "done",
                      !.resp = Ok([user_id |-> r.user.id,
                                   personalized_path |-> personalized_path,
                                   welcome_message |-> welcome_message.v])]
       ELSE [r EXCEPT !.pc = "done", !.resp = HTTPException(500, "Onboarding failed")]

\* f"{daily_co2:.1f}" of a value kept in tenths
Fmt1f(tenths) == ToString(tenths \div 10) \o "." \o ToString(tenths % 10)

ImpactPrompt(daily) ==
    <<"A user has a daily CO2 footprint of ", Fmt1f(daily),
      "kg. Create an encouraging message about the positive impact if 1000 similar users made better choices. Keep it under 50 words and inspiring.">>

\* UserProgress(...) as calculate_impact constructs it
UserProgress(request, impact_data) ==
    [user_id |-> request.user_id,
     current_co2_footprint |-> impact_data.daily_co2,
     daily_habits |-> [transport |-> request.transport, diet |-> request.diet,
                       energy |-> request.energy_usage, waste |-> request.waste_habits],
     completed_actions |-> <<>>, streak_days |-> 0]

\* calculate_impact from the return of generate_ai_content to the replace_one call
AfterImpactMessage(r) ==
    LET impact_data == calculate_co2_impact(r.args.transport, r.args.diet,
                                            r.args.energy_usage, r.args.waste_habits)
    IN [r EXCEPT !.pc = "replace", !.progress = UserProgress(r.args, impact_data)]

WhatIfPrompt(scenario) ==
    <<"Create an engaging \"What if?\" climate scenario response for: \"", scenario,
      "\" Include: a narrative, impact numbers, connection to daily life, one actionable step.">>

AfterWhatIfFailsWhenDegraded(r) ==
    IF r.ai = Degraded
    THEN [r EXCEPT !.pc = "done", !.resp = HTTPException(500, "Scenario generation failed")]
    ELSE [r EXCEPT !.pc = "done", !.resp = Ok([scenario_response |-> r.ai])]

AfterWhatIf(r) ==
    [r EXCEPT !.pc = "done", !.resp = Ok([scenario_response |-> r.ai])]

LocalActionsPrompt(request) ==
    <<"Generate 5 specific local environmental actions for someone in ", request.location,
      " interested in ">>
    \o Join(request.interests)
    \o <<". Format as JSON array with objects containing: title, description, impact, difficulty.">>

Action(title, description, impact, difficulty) ==
    PyDict([title |-> PyStr(<<title>>), description |-> PyStr(<<description>>),
            impact |-> PyStr(<<impact>>), difficulty |-> PyStr(<<difficulty>>)])

FallbackActions ==
    PyList(<<Action("Join a local beach/park cleanup",
                    "Connect with environmental groups in your area",
                    "Remove 50+ pieces of litter per hour", "easy"),
             Action("Start a community garden",
                    "Transform unused space into green areas",
                    "Absorb 40kg CO2 per year per plot", "medium")>>)

\* the values len() accepts
HasLen(value) == value.t \in {"list", "dict", "str"}

AfterLocalActionsWithoutFallback(r) ==
    LET parsed == json_loads(r.ai)
        actions == IF parsed.ok THEN parsed.value ELSE PyList(<<>>)
    IN [r EXCEPT !.pc = "done", !.resp = Ok([local_actions |-> actions])]

\* get_local_actions from the return of generate_ai_content to its response
AfterLocalActions(r) ==
    LET parsed == json_loads(r.ai)
        actions == IF parsed.ok THEN parsed.value ELSE FallbackActions
    IN IF HasLen(actions)
       THEN [r EXCEPT !.pc = "done", !.resp = Ok([local_actions |-> actions])]
       ELSE [r EXCEPT !.pc = "done",
                      !.resp = HTTPException(500, "Local actions retrieval failed")]

LearningPrompt(topic, user) ==
    IF user # NoDoc
    THEN <<"Create engaging learning content about ", topic, " for a ", ToString(user.age),
           "-year-old with ", user.knowledge_level,
           " knowledge level. Their interests include: ">>
         \o Join(user.interests)
         \o <<". They prefer ", user.learning_style,
              " learning style. Generate a JSON response with: title, content, key_points, action_items, fun_fact, quiz_question. Make it age-appropriate and engaging.">>
    ELSE <<"Create engaging learning content about ", topic,
           " for general audience. Generate a JSON response with: title, content, key_points, action_items, fun_fact, quiz_question.">>

LearningSystemMessage ==
    <<"You are an expert climate educator creating engaging learning content.">>

\* get_learning_content from the return of generate_ai_content to its response
AfterLearningContent(r) ==
    LET parsed == json_loads(r.ai)
    IN IF parsed.ok
       THEN [r EXCEPT !.pc = "done", !.resp = Ok([learning_content |-> parsed.value])]
       ELSE [r EXCEPT !.pc = "done",
                      !.resp = Ok([error |-> "Failed to generate structured learning content"])]

\* the caller resumes with the string generate_ai_content returned
AfterGen(r) ==
    CASE r.op = "onboarding" -> AfterOnboarding(r)
      [] r.op = "calculate_impact" -> AfterImpactMessage(r)
      [] r.op = "what_if" -> AfterWhatIf(r)
      [] r.op = "local_actions" -> AfterLocalActions(r)
      [] r.op = "learning_content" -> AfterLearningContent(r)

GenReturnApologyWhenDegraded(r, content, state) ==
    AfterGen([r EXCEPT !.ai = IF state = "DEGRADED" THEN Apology ELSE content,
                       !.path = Append(@, state)])

\* return content / return error_msg
GenReturn(r, content, state) ==
    AfterGen([r EXCEPT !.ai = content, !.path = Append(@, state)])

GenFallbackRaises(r0) ==
    LET r == [r0 EXCEPT !.path = Append(@, "SECONDARY_ATTEMPTED")]
    IN IF ~KeyMissing(gemini_key, GeminiPlaceholder)
       THEN [r EXCEPT !.pc = "secondary",
                      !.calls = Append(@, GeminiCall(r.prompt, r.system_message))]
       ELSE [r EXCEPT !.pc = "done", !.resp = HTTPException(500, "Internal Server Error")]

\* the except branch: the inner try is entered, and the Gemini call is issued
\* if its key is configured; otherwise control falls through to the error string
GenFallback(r0) ==
    LET r == [r0 EXCEPT !.path = Append(@, "SECONDARY_ATTEMPTED")]
    IN IF ~KeyMissing(gemini_key, GeminiPlaceholder)
       THEN [r EXCEPT !.pc = "secondary",
                      !.calls = Append(@, GeminiCall(r.prompt, r.system_message))]
       ELSE GenReturn(r, Degraded, "DEGRADED")

GenStartGivesUpWithoutKey(r0, prompt, system_message) ==
    LET r == [r0 EXCEPT !.prompt = prompt, !.system_message = system_message,
                        !.path = <<"NOT_STARTED", "PRIMARY_ATTEMPTED">>]
    IN IF KeyMissing(groq_key, GroqPlaceholder)
       THEN GenReturn([r EXCEPT !.path = Append(@, "SECONDARY_ATTEMPTED")],
                      Degraded, "DEGRADED")
       ELSE [r EXCEPT !.pc = "primary",
                      !.calls = Append(@, GroqCall(prompt, system_message))]

\* generate_ai_content up to its first await
GenStart(r0, prompt, system_message) ==
    LET r == [r0 EXCEPT !.prompt = prompt, !.system_message = system_message,
                        !.path = <<"NOT_STARTED", "PRIMARY_ATTEMPTED">>]
    IN IF KeyMissing(groq_key, GroqPlaceholder)
       THEN GenFallback(r)
       ELSE [r EXCEPT !.pc = "primary",
                      !.calls = Append(@, GroqCall(prompt, system_message))]


-----------------------------------------------------------------------------
(* Bounds and inputs                                                       *)

MaxReq == 2     \* request slots
MaxOps == 2     \* requests accepted in one run
MaxIds == 2     \* identifiers a client may send

Slots == 1..MaxReq

\* str(uuid.uuid4()): a fresh identifier each time
IdOf(n) == "user-" \o ToString(n)

IdPool == {IdOf(n) : n \in 1..MaxIds}

OnboardingRequests ==
    {[age |-> 12, interests |-> <<>>, knowledge_level |-> "beginner",
      learning_style |-> "visual", location |-> None],
     [age |-> 12, interests |-> <<"oceans">>, knowledge_level |-> "beginner",
      learning_style |-> "visual", location |-> None],
     [age |-> 30, interests |-> <<"renewable energy", "waste", "Forests">>,
      knowledge_level |-> "advanced", learning_style |-> "mixed", location |-> "Paris"]}

Habits ==
    {<<"car", "meat", "high", "high">>, <<"bike", "vegan", "low", "minimal">>,
     <<"hoverboard", "pescatarian", "solar", "average">>}

HabitInputs ==
    {[user_id |-> u, transport |-> h[1], diet |-> h[2], energy_usage |-> h[3],
      waste_habits |-> h[4]] : u \in IdPool, h \in Habits}

WhatIfRequests ==
    {[scenario |-> "What if all cars were electric?", context |-> None],
     [scenario |-> "My Personalized Climate Education Path", context |-> "school"]}

LocalActionRequests ==
    {[location |-> "Paris", interests |-> <<"oceans", "waste">>],
     [location |-> "My Personalized Climate Education Path", interests |-> <<>>]}

LearningRequests ==
    {<<>>, [topic |-> "oceans"], [user_id |-> IdOf(1)],
     [user_id |-> IdOf(1), topic |-> "oceans"]}

-----------------------------------------------------------------------------
(* Document store                                                          *)

\* find_one({"id": user_id}) on db.users
FindUser(user_id) ==
    IF \E u \in users : u.id = user_id
    THEN CHOOSE u \in users : u.id = user_id
    ELSE NoDoc

ReplaceOneAlwaysInserts(coll, doc) == Append(coll, doc)

ReplaceOneMergesHabits(coll, doc) ==
    IF \E i \in 1..Len(coll) : coll[i].user_id = doc.user_id
    THEN LET i == CHOOSE j \in 1..Len(coll) : coll[j].user_id = doc.user_id
         IN [coll EXCEPT ![i] = [doc EXCEPT !.daily_habits = coll[i].daily_habits]]
    ELSE Append(coll, doc)

\* replace_one({"user_id": ...}, doc, upsert=True) on db.user_progress
ReplaceOne(coll, doc) ==
    IF \E i \in 1..Len(coll) : coll[i].user_id = doc.user_id
    THEN LET i == CHOOSE j \in 1..Len(coll) :
                    /\ coll[j].user_id = doc.user_id
                    /\ \A k \in 1..(j - 1) : coll[k].user_id # doc.user_id
         IN [coll EXCEPT ![i] = doc]
    ELSE Append(coll, doc)

-----------------------------------------------------------------------------
(* Actions                                                                 *)

AcceptOneAtATime(s) == /\ \A t \in Slots : req[t].pc = "idle"
                       /\ started < MaxOps
                       /\ started' = started + 1

Accept(s) == /\ req[s].pc = "idle"
             /\ started < MaxOps
             /\ started' = started + 1

\* POST /onboarding up to the await of insert_one
Onboarding(s, request) ==
    /\ Accept(s)
    /\ req' = [req EXCEPT ![s] = [IdleReq EXCEPT !.op = "onboarding", !.pc = "insert",
                                                 !.args = request,
                                                 !.user = User(IdOf(next_id), request)]]
    /\ next_id' = next_id + 1
    /\ UNCHANGED <<users, user_progress, groq_key, gemini_key, est_in, est_out>>

InsertReturnsGeneratesAnyway(s) ==
    /\ req[s].pc = "insert"
    /\ \E ok \in BOOLEAN :
        /\ users' = IF ok THEN users \cup {req[s].user} ELSE users
        /\ req' = [req EXCEPT ![s] =
                      GenStart([req[s] EXCEPT !.stored = IF ok THEN "ok" ELSE "error"],
                               OnboardingPrompt(req[s].args), OnboardingSystemMessage)]
    /\ UNCHANGED <<user_progress, next_id, groq_key, gemini_key, started, est_in, est_out>>

\* insert_one returns or raises; on success the handler goes on to the generator
InsertReturns(s) ==
    /\ req[s].pc = "insert"
    /\ \E ok \in BOOLEAN :
        IF ok
        THEN /\ users' = users \cup {req[s].user}
             /\ req' = [req EXCEPT ![s] = GenStart([req[s] EXCEPT !.stored = "ok"],
                                                   OnboardingPrompt(req[s].args),
                                                   OnboardingSystemMessage)]
        ELSE /\ users' = users
             /\ req' = [req EXCEPT ![s] = [req[s] EXCEPT
                            !.pc = "done", !.stored = "error",
                            !.resp = HTTPException(500, "Onboarding failed")]]
    /\ UNCHANGED <<user_progress, next_id, groq_key, gemini_key, started, est_in, est_out>>

\* POST /calculate-impact up to the first await inside generate_ai_content
CalculateImpact(s, request) ==
    /\ Accept(s)
    /\ LET impact_data == calculate_co2_impact(request.transport, request.diet,
                                               request.energy_usage, request.waste_habits)
           r == [IdleReq EXCEPT !.op = "calculate_impact", !.args = request]
       IN req' = [req EXCEPT ![s] = GenStart(r, ImpactPrompt(impact_data.daily_co2),
                                             DefaultSystemMessage)]
    /\ UNCHANGED <<users, user_progress, next_id, groq_key, gemini_key, est_in, est_out>>

ReplaceReturnsRequiresUser(s) ==
    /\ req[s].pc = "replace"
    /\ \E ok \in BOOLEAN :
        IF ok /\ \E u \in users : u.id = req[s].args.user_id
        THEN LET a == req[s].args
                 impact_data == calculate_co2_impact(a.transport, a.diet,
                                                     a.energy_usage, a.waste_habits)
                 suggestions == generate_suggestions(a.transport, a.diet,
                                                     a.energy_usage, a.waste_habits)
             IN /\ user_progress' = ReplaceOne(user_progress, req[s].progress)
                /\ req' = [req EXCEPT ![s] = [req[s] EXCEPT
                               !.pc = "done", !.stored = "ok",
                               !.resp = Ok(ImpactSimulation(impact_data, suggestions,
                                                            req[s].ai))]]
        ELSE /\ user_progress' = user_progress
             /\ req' = [req EXCEPT ![s] = [req[s] EXCEPT
                            !.pc = "done", !.stored = IF ok THEN "ok" ELSE "error",
                            !.resp = HTTPException(500, "Impact calculation failed")]]
    /\ UNCHANGED <<users, next_id, groq_key, gemini_key, started, est_in, est_out>>

\* replace_one returns or raises; on success the handler answers
ReplaceReturns(s) ==
    /\ req[s].pc = "replace"
    /\ \E ok \in BOOLEAN :
        IF ok
        THEN LET a == req[s].args
                 impact_data == calculate_co2_impact(a.transport, a.diet,
                                                     a.energy_usage, a.waste_habits)
                 suggestions == generate_suggestions(a.transport, a.diet,
                                                     a.energy_usage, a.waste_habits)
             IN /\ user_progress' = ReplaceOne(user_progress, req[s].progress)
                /\ req' = [req EXCEPT ![s] = [req[s] EXCEPT
                               !.pc = "done", !.stored = "ok",
                               !.resp = Ok(ImpactSimulation(impact_data, suggestions,
                                                            req[s].ai))]]
        ELSE /\ user_progress' = user_progress
             /\ req' = [req EXCEPT ![s] = [req[s] EXCEPT
                            !.pc = "done", !.stored = "error",
                            !.resp = HTTPException(500, "Impact calculation failed")]]
    /\ UNCHANGED <<users, next_id, groq_key, gemini_key, started, est_in, est_out>>

\* POST /what-if up to the first await inside generate_ai_content
WhatIf(s, request) ==
    /\ Accept(s)
    /\ req' = [req EXCEPT ![s] =
                  GenStart([IdleReq EXCEPT !.op = "what_if", !.args = request],
                           WhatIfPrompt(request.scenario), DefaultSystemMessage)]
    /\ UNCHANGED <<users, user_progress, next_id, groq_key, gemini_key, est_in, est_out>>

\* POST /local-actions up to the first await inside generate_ai_content
LocalActions(s, request) ==
    /\ Accept(s)
    /\ req' = [req EXCEPT ![s] =
                  GenStart([IdleReq EXCEPT !.op = "local_actions", !.args = request],
                           LocalActionsPrompt(request), DefaultSystemMessage)]
    /\ UNCHANGED <<users, user_progress, next_id, groq_key, gemini_key, est_in, est_out>>

\* GET /user/{user_id} up to the await of find_one
GetUser(s, user_id) ==
    /\ Accept(s)
    /\ req' = [req EXCEPT ![s] = [IdleReq EXCEPT !.op = "get_user", !.pc = "find",
                                                 !.args = [user_id |-> user_id]]]
    /\ UNCHANGED <<users, user_progress, next_id, groq_key, gemini_key, est_in, est_out>>

\* POST /learning-content up to its first await: find_one if a user_id was
\* sent, otherwise the generator
LearningContent(s, request) ==
    /\ Accept(s)
    /\ LET user_id == Get(request, "user_id", None)
           topic == Get(request, "topic", "climate change")
           r == [IdleReq EXCEPT !.op = "learning_content",
                                !.args = [user_id |-> user_id, topic |-> topic]]
       IN IF user_id # None /\ user_id # ""
          THEN req' = [req EXCEPT ![s] = [r EXCEPT !.pc = "find"]]
          ELSE req' = [req EXCEPT ![s] = GenStart(r, LearningPrompt(topic, NoDoc),
                                                  LearningSystemMessage)]
    /\ UNCHANGED <<users, user_progress, next_id, groq_key, gemini_key, est_in, est_out>>

\* get_user after find_one: the 404 raised inside the try block is caught by
\* "except Exception" of the same block and becomes the 500
GetUserAfterFind(r, ok, user) ==
    IF ~ok
    THEN [r EXCEPT !.pc = "done", !.lookup = "error",
                   !.resp = HTTPException(500, "Failed to retrieve user")]
    ELSE IF user = NoDoc
    THEN [r EXCEPT !.pc = "done", !.lookup = "absent",
                   !.resp = HTTPException(500, "Failed to retrieve user")]
    ELSE [r EXCEPT !.pc = "done", !.lookup = "found", !.user = user, !.resp = Ok(user)]

\* get_learning_content after find_one
LearningAfterFind(r, ok, user) ==
    IF ~ok
    THEN [r EXCEPT !.pc = "done", !.lookup = "error",
                   !.resp = HTTPException(500, "Learning content generation failed")]
    ELSE GenStart([r EXCEPT !.user = user,
                            !.lookup = IF user = NoDoc THEN "absent" ELSE "found"],
                  LearningPrompt(r.args.topic, user), LearningSystemMessage)

\* find_one returns (a document or nothing) or raises
FindReturns(s) ==
    /\ req[s].pc = "find"
    /\ \E ok \in BOOLEAN :
        LET user == FindUser(req[s].args.user_id)
        IN req' = [req EXCEPT ![s] =
                      IF req[s].op = "get_user"
                      THEN GetUserAfterFind(req[s], ok, user)
                      ELSE LearningAfterFind(req[s], ok, user)]
    /\ UNCHANGED <<users, user_progress, next_id, groq_key, gemini_key, started,
                   est_in, est_out>>

\* the Groq call (run_in_executor) completes: it raised, it gave a message
\* without content, or it gave text
PrimaryReturns(s, texts) ==
    /\ req[s].pc = "primary"
    /\ \/ req' = [req EXCEPT ![s] =
                     GenFallback([req[s] EXCEPT !.replies =
                                    Append(@, [provider |-> "groq", outcome |-> "error"])])]
       \/ req' = [req EXCEPT ![s] =
                     GenFallback([req[s] EXCEPT !.replies =
                                    Append(@, [provider |-> "groq", outcome |-> "no_content"])])]
       \/ \E t \in texts :
            req' = [req EXCEPT ![s] =
                       GenReturn([req[s] EXCEPT !.replies =
                                     Append(@, [provider |-> "groq", outcome |-> "text",
                                                text |-> t])],
                                 Strip(t), "SUCCESS")]
    /\ UNCHANGED <<users, user_progress, next_id, groq_key, gemini_key, started,
                   est_in, est_out>>

SecondaryReturnsDegradedWhenEmpty(s, texts) ==
    /\ req[s].pc = "secondary"
    /\ \/ req' = [req EXCEPT ![s] =
                     GenReturn([req[s] EXCEPT !.replies =
                                   Append(@, [provider |-> "gemini", outcome |-> "error"])],
                               Degraded, "DEGRADED")]
       \/ \E t \in texts :
            req' = [req EXCEPT ![s] =
                       GenReturn([req[s] EXCEPT !.replies =
                                     Append(@, [provider |-> "gemini", outcome |-> "text",
                                                text |-> t])],
                                 IF t # <<>> THEN Strip(t) ELSE Degraded, "SUCCESS")]
    /\ UNCHANGED <<users, user_progress, next_id, groq_key, gemini_key, started,
                   est_in, est_out>>

\* the Gemini call completes: it raised, or it gave text (possibly empty)
SecondaryReturns(s, texts) ==
    /\ req[s].pc = "secondary"
    /\ \/ req' = [req EXCEPT ![s] =
                     GenReturn([req[s] EXCEPT !.replies =
                                   Append(@, [provider |-> "gemini", outcome |-> "error"])],
                               Degraded, "DEGRADED")]
       \/ \E t \in texts :
            req' = [req EXCEPT ![s] =
                       GenReturn([req[s] EXCEPT !.replies =
                                     Append(@, [provider |-> "gemini", outcome |-> "text",
                                                text |-> t])],
                                 IF t # <<>> THEN Strip(t) ELSE Apology, "SUCCESS")]
    /\ UNCHANGED <<users, user_progress, next_id, groq_key, gemini_key, started,
                   est_in, est_out>>

\* the response leaves the server
Deliver(s) ==
    /\ req[s].pc = "done"
    /\ req' = [req EXCEPT ![s] = IdleReq]
    /\ UNCHANGED <<users, user_progress, next_id, groq_key, gemini_key, started,
                   est_in, est_out>>

-----------------------------------------------------------------------------
(* Specifications                                                          *)

NoEst == [none |-> TRUE]

Init ==
    /\ users = {}
    /\ user_progress = <<>>
    /\ next_id = 1
    /\ groq_key \in GroqKeys
    /\ gemini_key \in GeminiKeys
    /\ req = [s \in Slots |-> IdleReq]
    /\ started = 0
    /\ est_in = NoEst
    /\ est_out = NoEst

\* requests served one at a time
Serve(s) ==
    \/ \E request \in OnboardingRequests : Onboarding(s, request)
    \/ InsertReturns(s)
    \/ \E request \in HabitInputs : CalculateImpact(s, request)
    \/ ReplaceReturns(s)
    \/ \E request \in WhatIfRequests : WhatIf(s, request)
    \/ \E request \in LocalActionRequests : LocalActions(s, request)
    \/ \E user_id \in IdPool : GetUser(s, user_id)
    \/ \E request \in LearningRequests : LearningContent(s, request)
    \/ FindReturns(s)
    \/ PrimaryReturns(s, ProviderTexts)
    \/ SecondaryReturns(s, ProviderTexts)
    \/ Deliver(s)

Next == Serve(1)

Spec == Init /\ [][Next]_vars


\* the requests that write nothing to the store: every one of them runs the
\* generator except get_user
Query(s) ==
    \/ \E request \in WhatIfRequests : WhatIf(s, request)
    \/ \E request \in LocalActionRequests : LocalActions(s, request)
    \/ \E user_id \in IdPool : GetUser(s, user_id)
    \/ \E request \in LearningRequests : LearningContent(s, request)
    \/ FindReturns(s)
    \/ PrimaryReturns(s, ProviderTexts)
    \/ SecondaryReturns(s, ProviderTexts)
    \/ Deliver(s)

NextQuery == Query(1)

\* those requests when every issued provider call eventually completes
\* (run_in_executor: there is no cancellation and no timeout)
FairSpec ==
    /\ Init
    /\ [][NextQuery]_vars
    /\ WF_vars(PrimaryReturns(1, ProviderTexts))
    /\ WF_vars(SecondaryReturns(1, ProviderTexts))

-----------------------------------------------------------------------------
(* Impact calculations in flight at the same time                          *)

\* what the providers answer here: one text; errors and empty messages remain
ConcTexts == {<<Word>>}

\* two different calculations for one user and one for another
ConcHabitInputs ==
    {[user_id |-> IdOf(1), transport |-> "car", diet |-> "meat",
      energy_usage |-> "high", waste_habits |-> "high"],
     [user_id |-> IdOf(1), transport |-> "bike", diet |-> "vegan",
      energy_usage |-> "solar", waste_habits |-> "whatever"],
     [user_id |-> IdOf(2), transport |-> "bus", diet |-> "vegetarian",
      energy_usage |-> "low", waste_habits |-> "minimal"]}

\* both provider keys are configured, the store is empty
InitConc ==
    /\ users = {}
    /\ user_progress = <<>>
    /\ next_id = 1
    /\ groq_key = "gsk_live"
    /\ gemini_key = "AIza_live"
    /\ req = [s \in Slots |-> IdleReq]
    /\ started = 0
    /\ est_in = NoEst
    /\ est_out = NoEst

\* the steps of a calculate_impact request; the event loop runs one step of
\* one request at a time and switches between requests at every await
Impact(s) ==
    \/ \E request \in ConcHabitInputs : CalculateImpact(s, request)
    \/ PrimaryReturns(s, ConcTexts)
    \/ SecondaryReturns(s, ConcTexts)
    \/ ReplaceReturns(s)
    \/ Deliver(s)

NextConc == \E s \in Slots : Impact(s)

ConcSpec == InitConc /\ [][NextConc]_vars

-----------------------------------------------------------------------------
(* The estimator on its own, over every combination of habit values        *)

HabitWords ==
    DOMAIN transport_values \cup DOMAIN diet_values \cup DOMAIN energy_values
    \cup DOMAIN waste_values \cup {"hoverboard"}

InitEst ==
    /\ users = {}
    /\ user_progress = <<>>
    /\ next_id = 1
    /\ groq_key = None
    /\ gemini_key = GeminiPlaceholder
    /\ req = [s \in Slots |-> IdleReq]
    /\ started = 0
    /\ est_in \in [transport : HabitWords, diet : HabitWords, energy : HabitWords,
                   waste : HabitWords]
    /\ est_out = NoEst

\* the synchronous part of calculate_impact: the estimate, the suggestions and
\* the response fields built from them
Estimate ==
    /\ est_out = NoEst
    /\ LET impact_data == calculate_co2_impact(est_in.transport, est_in.diet,
                                               est_in.energy, est_in.waste)
           suggestions == generate_suggestions(est_in.transport, est_in.diet,
                                               est_in.energy, est_in.waste)
       IN est_out' = [impact_data |-> impact_data, suggestions |-> suggestions,
                      response |-> ImpactSimulation(impact_data, suggestions, Degraded)]
    /\ UNCHANGED <<users, user_progress, next_id, groq_key, gemini_key, req, started,
                   est_in>>

NextEst == Estimate

SpecEst == InitEst /\ [][NextEst]_vars


-----------------------------------------------------------------------------
(* Properties of the estimator (checked under SpecEst)                     *)

Estimated == est_out # NoEst

\* the coefficient tables as the specification lists them, in tenths of a kilogram
ListedTransport(v) ==
    CASE v = "car" -> 65 [] v = "bike" -> 0 [] v = "walk" -> 0 [] v = "public" -> 21
      [] OTHER -> 65

ListedDiet(v) ==
    CASE v = "meat" -> 72 [] v = "vegetarian" -> 38 [] v = "vegan" -> 29
      [] v = "pescatarian" -> 41 [] OTHER -> 72

ListedEnergy(v) ==
    CASE v = "low" -> 21 [] v = "medium" -> 48 [] v = "high" -> 82 [] OTHER -> 48

ListedWaste(v) ==
    CASE v = "minimal" -> 8 [] v = "average" -> 23 [] v = "high" -> 41 [] OTHER -> 23

\* C7: for every input tuple, values outside the enums included, daily_co2 is
\* the sum of one coefficient per category, a known value taking its table
\* coefficient and an unknown one the listed default (6.5, 7.2, 4.8, 2.3), never
\* zero; (car, meat, high, high) gives 26.0 and (bike, vegan, low, minimal) 5.8.
C7_DailyIsSumOfListedCoefficients ==
    Estimated =>
        /\ est_out.impact_data.daily_co2 =
              ListedTransport(est_in.transport) + ListedDiet(est_in.diet)
              + ListedEnergy(est_in.energy) + ListedWaste(est_in.waste)
        /\ (est_in = [transport |-> "car", diet |-> "meat", energy |-> "high",
                      waste |-> "high"]) => est_out.impact_data.daily_co2 = 260
        /\ (est_in = [transport |-> "bike", diet |-> "vegan", energy |-> "low",
                      waste |-> "minimal"]) => est_out.impact_data.daily_co2 = 58

\* an estimate in which the transport value is unknown and every other value known
C7_Witness ==
    /\ Estimated
    /\ est_in = [transport |-> "hoverboard", diet |-> "vegan", energy |-> "low",
                 waste |-> "minimal"]
    /\ est_out.impact_data.daily_co2 = 123

\* C8: for every input tuple, in the estimator's result and in the response
\* built from it, weekly_co2 = daily_co2 * 7 and yearly_co2 = daily_co2 * 365.
C8_WeeklyAndYearlyAreMultiples ==
    Estimated =>
        /\ est_out.impact_data.weekly_co2 = est_out.impact_data.daily_co2 * 7
        /\ est_out.impact_data.yearly_co2 = est_out.impact_data.daily_co2 * 365
        /\ est_out.response.daily_co2 = est_out.impact_data.daily_co2
        /\ est_out.response.weekly_co2 = est_out.response.daily_co2 * 7
        /\ est_out.response.yearly_co2 = est_out.response.daily_co2 * 365

\* the largest estimate: 26.0 a day, 182.0 a week, 9490.0 a year
C8_Witness ==
    /\ Estimated
    /\ est_out.response.daily_co2 = 260
    /\ est_out.response.weekly_co2 = 1820
    /\ est_out.response.yearly_co2 = 94900

\* the suggestions that are due, in category order
DueSuggestions ==
    LET due == <<est_in.transport = "car", est_in.diet = "meat",
                 est_in.energy = "high", est_in.waste = "high">>
        text == <<SuggestTransport, SuggestDiet, SuggestEnergy, SuggestWaste>>
        F[i \in 0..4] == IF i = 0 THEN <<>>
                         ELSE IF due[i] THEN Append(F[i - 1], text[i]) ELSE F[i - 1]
    IN F[4]

\* C9: generate_suggestions returns zero to four suggestions: the transport one
\* iff transport is "car", the diet one iff diet is "meat", the energy one iff
\* energy is "high", the waste one iff waste is "high", always in that order;
\* the list is non-empty exactly when one of the four conditions holds, and an
\* unknown transport value, though charged the car coefficient, gives none.
C9_SuggestionsFollowTheFourRules ==
    Estimated =>
        /\ est_out.suggestions = DueSuggestions
        /\ Len(est_out.suggestions) \in 0..4
        /\ (est_out.suggestions # <<>>) <=>
              (est_in.transport = "car" \/ est_in.diet = "meat"
               \/ est_in.energy = "high" \/ est_in.waste = "high")
        /\ est_out.response.suggestions = est_out.suggestions

\* an unknown transport value is charged 6.5 and draws no suggestion
C9_Witness ==
    /\ Estimated
    /\ est_in.transport = "hoverboard"
    /\ est_in.diet = "vegan" /\ est_in.energy = "low" /\ est_in.waste = "minimal"
    /\ est_out.impact_data.daily_co2 = 123
    /\ est_out.suggestions = <<>>

\* the largest coefficient of a table
MaxOf(table) == CHOOSE m \in {table[k] : k \in DOMAIN table} :
                    \A k \in DOMAIN table : table[k] <= m

\* C10 as stated: an unknown value falls back, in each of the four categories,
\* to the largest coefficient of that category (6.5, 7.2, 8.2, 4.1).
C10_UnknownIsWorstCase ==
    Estimated =>
        est_out.impact_data.daily_co2 =
            Get(transport_values, est_in.transport, MaxOf(transport_values))
            + Get(diet_values, est_in.diet, MaxOf(diet_values))
            + Get(energy_values, est_in.energy, MaxOf(energy_values))
            + Get(waste_values, est_in.waste, MaxOf(waste_values))

\* C10 as amended: an unknown transport or diet value falls back to the largest
\* coefficient of its category (6.5, 7.2); an unknown energy or waste value
\* falls back to the middle coefficient, that of "medium" (4.8) and of
\* "average" (2.3), not to the largest.
C10_UnknownIsWorstCaseOnlyForTransportAndDiet ==
    Estimated =>
        /\ est_out.impact_data.daily_co2 =
              Get(transport_values, est_in.transport, MaxOf(transport_values))
              + Get(diet_values, est_in.diet, MaxOf(diet_values))
              + Get(energy_values, est_in.energy, energy_values["medium"])
              + Get(waste_values, est_in.waste, waste_values["average"])
        /\ energy_values["medium"] < MaxOf(energy_values)
        /\ waste_values["average"] < MaxOf(waste_values)

\* an estimate with all four values unknown: 6.5 + 7.2 + 4.8 + 2.3 = 20.8
C10_Witness ==
    /\ Estimated
    /\ est_in = [transport |-> "hoverboard", diet |-> "hoverboard",
                 energy |-> "hoverboard", waste |-> "hoverboard"]
    /\ est_out.impact_data.daily_co2 = 208


-----------------------------------------------------------------------------
(* Properties of the content generator and the handlers (checked under     *)
(* Spec, the liveness under FairSpec)                                      *)

Last(q) == q[Len(q)]

\* generate_ai_content has been entered / has returned
GenEntered(r) == r.path # <<>>
GenDone(r) == GenEntered(r) /\ Last(r.path) \in {"SUCCESS", "DEGRADED"}

IsText(x) == DOMAIN x = 1..Len(x) /\ \A i \in 1..Len(x) : x[i] \in STRING

CallsTo(r, provider) == {i \in 1..Len(r.calls) : r.calls[i].provider = provider}

RepliesOf(r, provider, outcomes) ==
    {i \in 1..Len(r.replies) :
        r.replies[i].provider = provider /\ r.replies[i].outcome \in outcomes}

\* the primary gave text / the primary failed: no usable key, the call raised,
\* or its response carried no content
PrimarySucceeded(r) == RepliesOf(r, "groq", {"text"}) # {}
PrimaryFailed(r) ==
    GenEntered(r) /\ (CallsTo(r, "groq") = {} \/ RepliesOf(r, "groq", {"error", "no_content"}) # {})

SecondaryFailed(r) == RepliesOf(r, "gemini", {"error"}) # {}
SecondaryUnconfigured == gemini_key = None \/ gemini_key = "" \/ gemini_key = GeminiPlaceholder

\* C2: generate_ai_content never raises to its caller: whatever the primary and
\* the secondary do, the caller resumes with a string; and when the primary
\* fails and the secondary fails or has no configured credential, that string
\* is exactly the fixed degraded-service string.
C2_GeneratorAlwaysReturnsText ==
    \A s \in Slots :
        LET r == req[s] IN
        /\ (GenEntered(r) /\ r.pc \in {"replace", "done"}) => GenDone(r)
        /\ GenDone(r) => IsText(r.ai)
        /\ (GenDone(r) /\ PrimaryFailed(r) /\ (SecondaryFailed(r) \/ SecondaryUnconfigured))
              => r.ai = Degraded

\* the primary call raised, no secondary key is configured, and what-if answered
\* 200 with the degraded string
C2_Witness ==
    \E s \in Slots :
        LET r == req[s] IN
        /\ r.op = "what_if" /\ r.pc = "done"
        /\ RepliesOf(r, "groq", {"error"}) # {}
        /\ SecondaryUnconfigured
        /\ r.resp = [status |-> 200, body |-> [scenario_response |-> Degraded]]

\* the text of the primary's reply
PrimaryText(r) == r.replies[CHOOSE i \in RepliesOf(r, "groq", {"text"}) : TRUE].text

\* C3 as stated: when the primary call succeeds, the generator returns exactly
\* the provider's text, leading and trailing whitespace included.
C3_PrimaryTextPassesThroughUnmodified ==
    \A s \in Slots :
        (GenDone(req[s]) /\ PrimarySucceeded(req[s])) => req[s].ai = PrimaryText(req[s])

\* out is text with its leading and trailing whitespace removed, nothing else
IsStripped(out, text) ==
    /\ \E l \in 0..Len(text), k \in 0..Len(text) : text = Spaces(l) \o out \o Spaces(k)
    /\ out # <<>> => (out[1] # WS /\ out[Len(out)] # WS)

\* C3 as amended: when the primary call succeeds with text, the generator
\* returns that text with its leading and trailing whitespace removed and is
\* otherwise unmodified: nothing in between is changed or cut.
C3_PrimaryTextPassesThroughStripped ==
    \A s \in Slots :
        (GenDone(req[s]) /\ PrimarySucceeded(req[s]))
            => /\ IsStripped(req[s].ai, PrimaryText(req[s]))
               /\ req[s].path = <<"NOT_STARTED", "PRIMARY_ATTEMPTED", "SUCCESS">>

\* the primary answered " hello hello " and "hello hello" was returned
C3_Witness ==
    \E s \in Slots :
        /\ GenDone(req[s]) /\ PrimarySucceeded(req[s])
        /\ PrimaryText(req[s]) = <<WS, Word, WS, Word, WS>>
        /\ req[s].ai = <<Word, WS, Word>>

\* C4: within one generate_ai_content call, a primary failure is followed by
\* exactly one secondary call (its credential being configured) whose single
\* instruction is system_message and prompt concatenated; the secondary is
\* never called after a primary success, no provider is called twice, and the
\* calls are at most two, primary before secondary.
C4_SecondaryOnceAfterPrimaryFailure ==
    \A s \in Slots :
        LET r == req[s]
            order == [i \in 1..Len(r.calls) |-> r.calls[i].provider]
        IN /\ order \in {<<>>, <<"groq">>, <<"gemini">>, <<"groq", "gemini">>}
           /\ Len(r.replies) <= Len(r.calls)
           /\ PrimarySucceeded(r) => CallsTo(r, "gemini") = {}
           /\ (PrimaryFailed(r) /\ ~SecondaryUnconfigured)
                 => /\ Cardinality(CallsTo(r, "gemini")) = 1
                    /\ \A i \in CallsTo(r, "gemini") :
                          r.calls[i].contents =
                              r.system_message \o <<"\n\nUser Query: ">> \o r.prompt
           /\ (PrimaryFailed(r) /\ SecondaryUnconfigured) => CallsTo(r, "gemini") = {}

\* both providers were called, in that order, and both calls have completed
C4_Witness ==
    \E s \in Slots :
        /\ Len(req[s].calls) = 2
        /\ req[s].calls[1].provider = "groq" /\ req[s].calls[2].provider = "gemini"
        /\ Len(req[s].replies) = 2
        /\ req[s].pc = "done"

\* the paths through the per-request state machine
MachinePaths ==
    {<<>>,
     <<"NOT_STARTED", "PRIMARY_ATTEMPTED">>,
     <<"NOT_STARTED", "PRIMARY_ATTEMPTED", "SUCCESS">>,
     <<"NOT_STARTED", "PRIMARY_ATTEMPTED", "SECONDARY_ATTEMPTED">>,
     <<"NOT_STARTED", "PRIMARY_ATTEMPTED", "SECONDARY_ATTEMPTED", "SUCCESS">>,
     <<"NOT_STARTED", "PRIMARY_ATTEMPTED", "SECONDARY_ATTEMPTED", "DEGRADED">>}

SecondaryTexts(r) == {r.replies[i].text : i \in RepliesOf(r, "gemini", {"text"})}
PrimaryTexts(r) == {r.replies[i].text : i \in RepliesOf(r, "groq", {"text"})}

\* C5 as stated, its final outcome: every call follows the state machine, and
\* its terminal state is SUCCESS with the primary's or the secondary's text
\* returned, or DEGRADED with the fixed degraded string returned.
C5_TerminalIsProviderTextOrDegraded ==
    \A s \in Slots :
        LET r == req[s] IN
        /\ r.path \in MachinePaths
        /\ GenDone(r) =>
              \/ Last(r.path) = "SUCCESS" /\ r.ai \in PrimaryTexts(r) \cup SecondaryTexts(r)
              \/ Last(r.path) = "DEGRADED" /\ r.ai = Degraded

C5_Outcomes ==
    \A s \in Slots :
        LET r == req[s] IN
        /\ r.path \in MachinePaths
        /\ GenDone(r) =>
              \/ /\ Last(r.path) = "SUCCESS"
                 /\ \/ \E t \in PrimaryTexts(r) : IsStripped(r.ai, t)
                    \/ \E t \in SecondaryTexts(r) : t # <<>> /\ IsStripped(r.ai, t)
                    \/ <<>> \in SecondaryTexts(r) /\ r.ai = Apology
              \/ Last(r.path) = "DEGRADED" /\ r.ai = Degraded

\* C5 as amended: every call follows NOT_STARTED -> PRIMARY_ATTEMPTED ->
\* {SUCCESS | SECONDARY_ATTEMPTED -> {SUCCESS | DEGRADED}} and, each issued
\* provider call eventually completing, reaches a terminal state: SUCCESS, the
\* returned string being the primary's or the secondary's text with its
\* surrounding whitespace removed, or the fixed apology string when the
\* secondary's text is empty; or DEGRADED, the returned string being the
\* fixed degraded string.
C5_MachineReachesSuccessOrDegraded ==
    /\ []C5_Outcomes
    /\ \A s \in Slots : (req[s].pc \in {"primary", "secondary"}) ~> GenDone(req[s])

\* the secondary answered with empty text after a primary failure
C5_Witness ==
    \E s \in Slots :
        /\ req[s].path = <<"NOT_STARTED", "PRIMARY_ATTEMPTED", "SECONDARY_ATTEMPTED", "SUCCESS">>
        /\ <<>> \in SecondaryTexts(req[s])
        /\ req[s].ai = Apology


\* C1 as stated: get_user on an identifier that is not in the users collection
\* answers 404 'User not found'; 500 'Failed to retrieve user' is answered
\* only when the store lookup itself fails.
C1_UnknownUserIsNotFound ==
    \A s \in Slots :
        LET r == req[s] IN
        (r.op = "get_user" /\ r.pc = "done") =>
            /\ r.lookup = "absent" => r.resp = [status |-> 404, detail |-> "User not found"]
            /\ r.resp.status = 500 => r.lookup = "error"

\* onboarding answered after the generator returned text that json.loads rejects
OnboardedWithoutJson(r) ==
    /\ r.op = "onboarding" /\ r.pc = "done"
    /\ GenDone(r)
    /\ ~json_loads(r.ai).ok

ModuleTitles(path) ==
    [i \in 1..Len(path.v.learning_modules.v) |-> path.v.learning_modules.v[i].v.title.v]

\* the parts of the static fallback that do not depend on the request
FixedFallbackParts(r) ==
    /\ r.resp.status = 200
    /\ r.resp.body.user_id = r.user.id
    /\ DOMAIN r.resp.body.personalized_path.v =
          {"welcome_message", "learning_modules", "first_quest", "daily_tip"}
    /\ r.resp.body.personalized_path.v.first_quest.v =
          <<"Calculate your carbon footprint and discover 3 easy ways to reduce it today!">>
    /\ r.resp.body.personalized_path.v.daily_tip.v =
          <<"Did you know? Unplugging devices when not in use can save up to 10% on your electricity bill!">>
    /\ r.resp.body.welcome_message = r.resp.body.personalized_path.v.welcome_message.v
    /\ r.resp.body.welcome_message[1] =
          "Welcome to EcoQuest! Ready to become a climate hero? Based on your interests in "

\* C6 as stated: when the generator's output is not valid JSON, onboarding
\* succeeds with the static fallback: five modules titled 'Climate Basics',
\* '<first supplied interest> Deep Dive', 'Carbon Footprint', 'Green
\* Solutions', 'Take Action', the fixed first_quest and daily_tip, and the
\* fallback's welcome_message.
C6_FallbackTitlesUseFirstInterest ==
    \A s \in Slots :
        LET r == req[s] IN
        (OnboardedWithoutJson(r) /\ r.args.interests # <<>>) =>
            /\ FixedFallbackParts(r)
            /\ ModuleTitles(r.resp.body.personalized_path) =
                  <<<<"Climate Basics">>, <<r.args.interests[1], " Deep Dive">>,
                    <<"Carbon Footprint">>, <<"Green Solutions">>, <<"Take Action">>>>

\* the first interest as str.title() renders it, "climate" standing in when no
\* interest was supplied
TitleCasedFirstInterest(interests) ==
    IF interests = <<>> THEN "Climate"
    ELSE CASE interests[1] = "oceans" -> "Oceans"
           [] interests[1] = "renewable energy" -> "Renewable Energy"
           [] interests[1] = "waste" -> "Waste"
           [] interests[1] = "Forests" -> "Forests"

\* C6 as amended: when the generator's output is not valid JSON, onboarding
\* succeeds with the static fallback: five modules titled 'Climate Basics',
\* '<first supplied interest in title case> Deep Dive' ('Climate Deep Dive'
\* when no interest was supplied), 'Carbon Footprint', 'Green Solutions',
\* 'Take Action', the fixed first_quest and daily_tip, and the fallback's
\* welcome_message.
C6_FallbackTitlesUseTitleCasedInterest ==
    \A s \in Slots :
        LET r == req[s] IN
        OnboardedWithoutJson(r) =>
            /\ FixedFallbackParts(r)
            /\ ModuleTitles(r.resp.body.personalized_path) =
                  <<<<"Climate Basics">>,
                    <<TitleCasedFirstInterest(r.args.interests), " Deep Dive">>,
                    <<"Carbon Footprint">>, <<"Green Solutions">>, <<"Take Action">>>>

\* onboarding with interests ["oceans"] answered from the degraded string
C6_Witness ==
    \E s \in Slots :
        /\ OnboardedWithoutJson(req[s])
        /\ req[s].ai = Degraded
        /\ req[s].args.interests = <<"oceans">>
        /\ req[s].resp.status = 200
        /\ ModuleTitles(req[s].resp.body.personalized_path)[2] = <<"Oceans", " Deep Dive">>


-----------------------------------------------------------------------------
(* Properties of the handlers and the store (checked under Spec)           *)

GroqCallsOf(r) == {r.calls[i] : i \in CallsTo(r, "groq")}

IsStructuredProfile(call) ==
    call.max_tokens = 800 /\ call.temperature = 7 /\ call.json_object

IsFreeformProfile(call) ==
    call.max_tokens = 500 /\ call.temperature = 8 /\ ~call.json_object

\* C12 as stated: the primary provider is called with the structured profile
\* (max_tokens 800, temperature 0.7, JSON directive) by onboarding,
\* local-actions and learning-content, and with the freeform profile
\* (max_tokens 500, temperature 0.8, no directive) by what-if and the impact
\* message, whatever text the user supplied.
C12_ProfileFollowsCaller ==
    \A s \in Slots : \A call \in GroqCallsOf(req[s]) :
        /\ req[s].op \in {"onboarding", "local_actions", "learning_content"}
              => IsStructuredProfile(call)
        /\ req[s].op \in {"what_if", "calculate_impact"} => IsFreeformProfile(call)

\* a JSON-shaped handler answered after the generator returned text that
\* json.loads rejects
AnsweredWithoutJson(r) ==
    /\ r.op \in {"onboarding", "local_actions", "learning_content"}
    /\ r.pc = "done"
    /\ GenDone(r)
    /\ ~json_loads(r.ai).ok

\* the two fixed entries of the local-actions fallback
TwoFixedActions(actions) ==
    /\ actions.t = "list"
    /\ Len(actions.v) = 2
    /\ \A i \in 1..2 : /\ actions.v[i].t = "dict"
                       /\ DOMAIN actions.v[i].v =
                             {"title", "description", "impact", "difficulty"}
    /\ actions.v[1].v.title.v = <<"Join a local beach/park cleanup">>
    /\ actions.v[1].v.difficulty.v = <<"easy">>
    /\ actions.v[2].v.title.v = <<"Start a community garden">>
    /\ actions.v[2].v.difficulty.v = <<"medium">>

FallbackForOnboardingAndLocalActions(r) ==
    /\ r.resp.status = 200
    /\ r.op = "onboarding" =>
          /\ DOMAIN r.resp.body = {"user_id", "personalized_path", "welcome_message"}
          /\ r.resp.body.personalized_path.t = "dict"
          /\ DOMAIN r.resp.body.personalized_path.v =
                {"welcome_message", "learning_modules", "first_quest", "daily_tip"}
          /\ Len(r.resp.body.personalized_path.v.learning_modules.v) = 5
    /\ r.op = "local_actions" =>
          /\ DOMAIN r.resp.body = {"local_actions"}
          /\ TwoFixedActions(r.resp.body.local_actions)

\* C13 as stated: in onboard, local_actions and learning_content, generator
\* output that does not parse as JSON does not fail the operation; it returns
\* a hardcoded fallback with the schema of the normal result (the fixed
\* two-entry list for local_actions, a learning_content object for
\* learning_content).
C13_EveryJsonCallerFallsBackToItsSchema ==
    \A s \in Slots :
        LET r == req[s] IN
        AnsweredWithoutJson(r) =>
            /\ FallbackForOnboardingAndLocalActions(r)
            /\ r.op = "learning_content" => "learning_content" \in DOMAIN r.resp.body

\* C13 as amended: in onboard and local_actions, generator output that does
\* not parse as JSON does not fail the operation; it returns a hardcoded
\* fallback with the schema of the normal result (the fixed two-entry list for
\* local_actions). learning_content does not fail either, but it has no
\* fallback object: it answers {error: "Failed to generate structured learning
\* content"} with no learning_content field.
C13_LearningContentAnswersErrorObject ==
    \A s \in Slots :
        LET r == req[s] IN
        AnsweredWithoutJson(r) =>
            /\ FallbackForOnboardingAndLocalActions(r)
            /\ r.op = "learning_content" =>
                  r.resp.body = [error |-> "Failed to generate structured learning content"]

\* local-actions answered the two fixed entries from the degraded string
C13_Witness ==
    \E s \in Slots :
        /\ AnsweredWithoutJson(req[s])
        /\ req[s].op = "local_actions"
        /\ req[s].ai = Degraded
        /\ req[s].resp.status = 200
        /\ TwoFixedActions(req[s].resp.body.local_actions)

\* C14 as stated: every successful local_actions response carries a non-empty
\* list each of whose entries is an object with the fields title, description,
\* impact and difficulty, whatever the generator returned.
C14_LocalActionsIsListOfActions ==
    \A s \in Slots :
        LET r == req[s] IN
        (r.op = "local_actions" /\ r.pc = "done" /\ r.resp.status = 200) =>
            /\ r.resp.body.local_actions.t = "list"
            /\ r.resp.body.local_actions.v # <<>>
            /\ \A i \in 1..Len(r.resp.body.local_actions.v) :
                  /\ r.resp.body.local_actions.v[i].t = "dict"
                  /\ {"title", "description", "impact", "difficulty"}
                        \subseteq DOMAIN r.resp.body.local_actions.v[i].v

ProvidersFailed(r) ==
    PrimaryFailed(r) /\ (SecondaryFailed(r) \/ SecondaryUnconfigured)

\* C15: a provider failure is never surfaced as an error: when the store
\* works, what_if, calculate_impact, local_actions and onboard answer 200 for
\* every way the primary and the secondary can fail (scenario_response and
\* positive_impact are then exactly the degraded string), and a 500 comes only
\* from a failure that is not a provider's, such as a store failure.
C15_ProviderFailureIsNeverAnError ==
    \A s \in Slots :
        LET r == req[s] IN
        (r.op \in {"what_if", "calculate_impact", "local_actions", "onboarding"}
         /\ r.pc = "done") =>
            /\ (GenDone(r) /\ ProvidersFailed(r) /\ r.stored # "error") =>
                  /\ r.resp.status = 200
                  /\ r.op = "what_if" => r.resp.body.scenario_response = Degraded
                  /\ r.op = "calculate_impact" => r.resp.body.positive_impact = Degraded
            /\ r.resp.status = 500 =>
                  (r.stored = "error" \/ (GenDone(r) /\ ~ProvidersFailed(r)))

\* calculate_impact answered 200 with the degraded string after both providers
\* raised
C15_Witness ==
    \E s \in Slots :
        LET r == req[s] IN
        /\ r.op = "calculate_impact" /\ r.pc = "done"
        /\ RepliesOf(r, "groq", {"error"}) # {}
        /\ RepliesOf(r, "gemini", {"error"}) # {}
        /\ r.resp.status = 200
        /\ r.resp.body.positive_impact = Degraded

UserIds == {u.id : u \in users}

\* the stored user with this identifier
StoredUser(id) == CHOOSE u \in users : u.id = id

CreatedFrom(u, request) ==
    /\ u.age = request.age
    /\ u.interests = request.interests
    /\ u.knowledge_level = request.knowledge_level
    /\ u.learning_style = request.learning_style
    /\ u.location = request.location
    /\ u.points = 0 /\ u.level = 1 /\ u.completed_quests = <<>>

UsersAreAsOnboarded ==
    /\ Cardinality(UserIds) = Cardinality(users)
    /\ \A u \in users : u.points = 0 /\ u.level = 1 /\ u.completed_quests = <<>>
    /\ \A s \in Slots :
          LET r == req[s] IN
          /\ (r.op = "onboarding" /\ r.pc = "done" /\ r.resp.status = 200) =>
                /\ r.resp.body.user_id \in UserIds
                /\ CreatedFrom(StoredUser(r.resp.body.user_id), r.args)
          /\ (r.op = "get_user" /\ r.pc = "done" /\ r.lookup = "found") =>
                /\ r.args.user_id \in UserIds
                /\ r.resp = [status |-> 200, body |-> StoredUser(r.args.user_id)]

UsersOnlyGrowByOnboarding ==
    /\ users \subseteq users'
    /\ users' # users =>
          \E s \in Slots, request \in OnboardingRequests :
              /\ req[s].op = "onboarding" /\ req[s].pc = "insert"
              /\ req[s].args = request
              /\ \E u \in users' \ users :
                    /\ users' = users \cup {u}
                    /\ u.id \notin UserIds
                    /\ CreatedFrom(u, request)

\* C16: a user record is created exactly once, by onboard, with the supplied
\* age, interests, knowledge_level, learning_style and location and with
\* points 0, level 1 and no completed quests; no later operation deletes or
\* changes it, so get_user with that identifier returns those values whenever
\* its lookup finds the record.
C16_UserRecordIsCreatedOnceAndKept ==
    /\ []UsersAreAsOnboarded
    /\ [][UsersOnlyGrowByOnboarding]_vars

\* get_user returned the record an earlier onboard created for a 30-year-old
C16_Witness ==
    \E s \in Slots :
        LET r == req[s] IN
        /\ r.op = "get_user" /\ r.pc = "done"
        /\ r.resp.status = 200
        /\ r.resp.body.id = IdOf(1)
        /\ r.resp.body.age = 30
        /\ r.resp.body.location = "Paris"
        /\ r.resp.body.points = 0 /\ r.resp.body.level = 1

ProgressOf(user_id) ==
    {i \in 1..Len(user_progress) : user_progress[i].user_id = user_id}

\* C19: calculate_impact does not check that user_id names an existing user:
\* whenever its replace_one succeeds it answers 200 and the collection holds a
\* progress record for that identifier, onboarded or not.
C19_ImpactDoesNotRequireAUser ==
    \A s \in Slots :
        LET r == req[s] IN
        (r.op = "calculate_impact" /\ r.pc = "done" /\ r.stored = "ok") =>
            /\ r.resp.status = 200
            /\ ProgressOf(r.args.user_id) # {}

\* a progress record for an identifier that no user record carries
C19_Witness ==
    \E s \in Slots :
        LET r == req[s] IN
        /\ r.op = "calculate_impact" /\ r.pc = "done"
        /\ r.resp.status = 200
        /\ r.args.user_id \notin UserIds
        /\ ProgressOf(r.args.user_id) # {}

\* C20: onboard inserts the user before it generates content and never rolls
\* the insert back: when it ends with the 500 after a successful insert, the
\* user record is in the store although no user_id was returned; when the
\* insert itself fails, no provider call is made and nothing is stored.
C20_InsertIsNeverRolledBack ==
    \A s \in Slots :
        LET r == req[s] IN
        (r.op = "onboarding" /\ r.pc = "done") =>
            /\ r.stored = "ok" => r.user \in users
            /\ r.stored = "error" =>
                  /\ r.resp = [status |-> 500, detail |-> "Onboarding failed"]
                  /\ r.calls = <<>> /\ ~GenEntered(r)
                  /\ r.user.id \notin UserIds
            /\ GenEntered(r) => r.stored = "ok"

\* the provider answered an object whose welcome_message is null: the response
\* could not be built, and the inserted user stayed
C20_Witness ==
    \E s \in Slots :
        LET r == req[s] IN
        /\ r.op = "onboarding" /\ r.pc = "done"
        /\ r.stored = "ok"
        /\ r.ai = <<DocWelcomeNull>>
        /\ r.resp = [status |-> 500, detail |-> "Onboarding failed"]
        /\ r.user \in users


-----------------------------------------------------------------------------
(* Properties of concurrent impact calculations (checked under ConcSpec)   *)

\* the request answered 200 after its replace_one succeeded
Saved(r) == r.op = "calculate_impact" /\ r.pc = "done" /\ r.stored = "ok"

\* C11: after any sequence and any interleaving of calculate_impact
\* operations the user_progress collection holds at most one record per
\* user_id, each replace_one with upsert being one atomic step of the store.
C11_OneProgressRecordPerUser ==
    \A i, j \in 1..Len(user_progress) :
        user_progress[i].user_id = user_progress[j].user_id => i = j

\* two calculations for the same user were both saved, and one record is there
C11_Witness ==
    \E s, t \in Slots :
        /\ s # t
        /\ Saved(req[s]) /\ Saved(req[t])
        /\ req[s].args.user_id = req[t].args.user_id
        /\ Cardinality(ProgressOf(req[s].args.user_id)) = 1

\* the next step of every request can be taken whatever the other requests
\* are waiting for
NobodyWaitsForAnother ==
    \A s \in Slots :
        /\ (req[s].pc = "idle" /\ started < MaxOps) =>
              ENABLED (\E request \in ConcHabitInputs : CalculateImpact(s, request))
        /\ req[s].pc = "primary" => ENABLED PrimaryReturns(s, ConcTexts)
        /\ req[s].pc = "secondary" => ENABLED SecondaryReturns(s, ConcTexts)
        /\ req[s].pc = "replace" => ENABLED ReplaceReturns(s)
        /\ req[s].pc = "done" => ENABLED Deliver(s)

\* the text generate_ai_content owes to a request, from the replies that
\* request's own provider calls received
TextFromOwnReplies(r) ==
    LET last == r.replies[Len(r.replies)]
    IN IF last.outcome = "error" THEN Degraded
       ELSE IF last.outcome = "no_content" THEN Degraded
       ELSE IF last.text = <<>> THEN Apology
       ELSE Strip(last.text)

AnswerIsOwn ==
    \A s \in Slots :
        LET r == req[s] IN
        (r.op = "calculate_impact" /\ r.pc = "done" /\ r.resp.status = 200) =>
            /\ r.replies # <<>>
            /\ r.resp.body.positive_impact = TextFromOwnReplies(r)
            /\ r.resp.body.daily_co2 =
                  daily_co2_of(r.args.transport, r.args.diet, r.args.energy_usage,
                               r.args.waste_habits)

OneRequestPerStep ==
    \A s, t \in Slots : (req'[s] # req[s] /\ s # t) => req'[t] = req[t]

\* C17: requests in flight at the same time are independent: a request
\* suspended at an await, even for ever, never disables the next step of
\* another request, a step of one request changes nothing of another, and the
\* text returned to a request is determined by its own inputs and the replies
\* to its own provider calls.
C17_RequestsInFlightAreIndependent ==
    /\ [](NobodyWaitsForAnother /\ AnswerIsOwn)
    /\ [][OneRequestPerStep]_vars

\* one request is still waiting for the primary provider while another, which
\* was accepted after it, has its answer from the secondary
C17_Witness ==
    \E s, t \in Slots :
        /\ s # t
        /\ req[s].pc = "primary"
        /\ req[t].op = "calculate_impact" /\ req[t].pc = "done"
        /\ req[t].resp.status = 200
        /\ RepliesOf(req[t], "gemini", {"text"}) # {}
        /\ req[t].resp.body.positive_impact = <<Word>>

\* the complete record of one request
RecordOf(request) ==
    UserProgress(request,
                 calculate_co2_impact(request.transport, request.diet,
                                      request.energy_usage, request.waste_habits))

EveryRecordIsOneRequests ==
    /\ \A i \in 1..Len(user_progress) :
          /\ \E request \in ConcHabitInputs : user_progress[i] = RecordOf(request)
          /\ user_progress[i].completed_actions = <<>>
          /\ user_progress[i].streak_days = 0
    /\ \A s \in Slots :
          (Saved(req[s]) /\ req[s].resp.status = 200) =>
              /\ RecordOf(req[s].args).current_co2_footprint = req[s].resp.body.daily_co2
              /\ RecordOf(req[s].args).daily_habits =
                    [transport |-> req[s].args.transport, diet |-> req[s].args.diet,
                     energy |-> req[s].args.energy_usage,
                     waste |-> req[s].args.waste_habits]

\* a successful replace_one leaves exactly the record of its request for that
\* user and the other users' records as they were; nothing else writes
LastReplaceWins ==
    /\ \A s \in Slots :
          (req[s].pc = "replace" /\ req'[s].pc = "done" /\ req'[s].stored = "ok") =>
              /\ \E i \in 1..Len(user_progress') : user_progress'[i] = RecordOf(req[s].args)
              /\ \A i \in 1..Len(user_progress) :
                    user_progress[i].user_id # req[s].args.user_id =>
                        user_progress'[i] = user_progress[i]
              /\ Len(user_progress') =
                    IF ProgressOf(req[s].args.user_id) = {} THEN Len(user_progress) + 1
                    ELSE Len(user_progress)
    /\ user_progress' # user_progress =>
          \E s \in Slots : req[s].pc = "replace" /\ req'[s].stored = "ok"

\* C18: each successful calculate_impact replaces the user's progress record
\* wholesale: the stored record has the daily_co2 returned to that caller, the
\* four raw request values, no completed actions and streak 0, whatever the
\* previous record was; when requests for the same user interleave, the record
\* is always the complete record of the one whose replace_one ran last, never
\* a mixture of fields.
C18_RecordIsReplacedWholesale ==
    /\ []EveryRecordIsOneRequests
    /\ [][LastReplaceWins]_vars

\* two interleaved requests of one user with different habits were both saved:
\* the record is the one of the first and has nothing of the other
C18_Witness ==
    \E s, t \in Slots :
        /\ s # t
        /\ Saved(req[s]) /\ Saved(req[t])
        /\ req[s].args.user_id = req[t].args.user_id
        /\ req[s].args # req[t].args
        /\ req[s].args.waste_habits = "whatever"
        /\ \E i \in 1..Len(user_progress) :
              /\ user_progress[i] = RecordOf(req[s].args)
              /\ user_progress[i].daily_habits.transport # req[t].args.transport
              /\ user_progress[i].current_co2_footprint # req[t].resp.body.daily_co2


-----------------------------------------------------------------------------
(* Further properties of onboarding and of the generator (checked under Spec) *)

\* onboarding resumed with generator text that is valid JSON
OnboardedWithJson(r) ==
    /\ r.op = "onboarding" /\ r.pc = "done"
    /\ GenDone(r)
    /\ json_loads(r.ai).ok

\* C21: in onboard, generator output that is valid JSON but not an object (an
\* array, a number, a string, a boolean or null) is handled like unparseable
\* output: the operation answers 200 with the static fallback path, never with
\* the parsed value and never with the internal error; a personalized_path
\* that is not the fallback is always a parsed JSON object.
C21_NonObjectJsonFallsBack ==
    \A s \in Slots :
        LET r == req[s] IN
        /\ (OnboardedWithJson(r) /\ json_loads(r.ai).value.t # "dict") =>
              /\ r.resp.status = 200
              /\ r.resp.body.personalized_path = FallbackPath(r.args.interests)
              /\ r.resp.body.personalized_path # json_loads(r.ai).value
              /\ r.resp.body.welcome_message =
                    FallbackPath(r.args.interests).v.welcome_message.v
        /\ (r.op = "onboarding" /\ r.pc = "done" /\ r.resp.status = 200
            /\ r.resp.body.personalized_path # FallbackPath(r.args.interests)) =>
              /\ OnboardedWithJson(r)
              /\ json_loads(r.ai).value.t = "dict"
              /\ r.resp.body.personalized_path = json_loads(r.ai).value

\* the provider answered the array [7], and onboarding returned the fallback
C21_Witness ==
    \E s \in Slots :
        LET r == req[s] IN
        /\ OnboardedWithJson(r)
        /\ Strip(r.ai) = <<DocNumberArray>>
        /\ r.resp.status = 200
        /\ r.resp.body.personalized_path = FallbackPath(r.args.interests)


\* the reply to the request's secondary call, when it has one
SecondaryReply(r) == r.replies[CHOOSE i \in RepliesOf(r, "gemini", {"error", "text"}) : TRUE]

\* the secondary call of the request completed without error and with "" as text
SecondaryGaveEmptyText(r) ==
    /\ GenDone(r)
    /\ PrimaryFailed(r)
    /\ RepliesOf(r, "gemini", {"text"}) # {}
    /\ SecondaryReply(r).text = <<>>

\* C22: when the primary fails and the secondary call completes without error
\* but with empty text, generate_ai_content returns the fixed string "Sorry, I
\* couldn't generate a response.", which is neither the secondary's text nor
\* the degraded-service string.
C22_EmptySecondaryTextGivesApology ==
    \A s \in Slots :
        LET r == req[s] IN
        SecondaryGaveEmptyText(r) =>
            /\ r.ai = <<"Sorry, I couldn't generate a response.">>
            /\ r.ai # SecondaryReply(r).text
            /\ r.ai # Degraded
            /\ Last(r.path) = "SUCCESS"

\* the primary raised, the secondary returned "", and what-if answered with
\* the apology
C22_Witness ==
    \E s \in Slots :
        LET r == req[s] IN
        /\ r.op = "what_if" /\ r.pc = "done"
        /\ SecondaryGaveEmptyText(r)
        /\ RepliesOf(r, "groq", {"error"}) # {}
        /\ r.resp = Ok([scenario_response |-> Apology])

-----------------------------------------------------------------------------
(* The range of the estimate (checked under SpecEst)                       *)

\* the declared values of the four categories
DeclaredTuples ==
    [transport : DOMAIN transport_values, diet : DOMAIN diet_values,
     energy : DOMAIN energy_values, waste : DOMAIN waste_values]

DeclaredEstimates ==
    {daily_co2_of(h.transport, h.diet, h.energy, h.waste) : h \in DeclaredTuples}

\* C24: for every input tuple, unknown strings included, daily_co2 lies
\* between 5.8 and 26.0, weekly_co2 between 40.6 and 182.0 and yearly_co2
\* between 2117 and 9490 (here in tenths); an unknown value never pushes the
\* estimate outside the range reachable with declared values.
C24_EstimateStaysInDeclaredRange ==
    Estimated =>
        /\ est_out.impact_data.daily_co2 \in 58..260
        /\ est_out.impact_data.weekly_co2 \in 406..1820
        /\ est_out.impact_data.yearly_co2 \in 21170..94900
        /\ est_out.response.daily_co2 \in 58..260
        /\ \E lo, hi \in DeclaredEstimates :
              /\ lo <= est_out.impact_data.daily_co2
              /\ est_out.impact_data.daily_co2 <= hi
        /\ 58 \in DeclaredEstimates /\ 260 \in DeclaredEstimates

\* an estimate with an unknown energy value beside the three largest
\* coefficients: 6.5 + 7.2 + 4.8 + 4.1 = 22.6
C24_Witness ==
    /\ Estimated
    /\ est_in = [transport |-> "car", diet |-> "meat", energy |-> "hoverboard",
                 waste |-> "high"]
    /\ est_out.impact_data.daily_co2 = 226
    /\ est_out.impact_data.yearly_co2 = 82490


====
